---- MODULE Spec2Model ----
(***************************************************************************)
(* VendorCompare backend: the POST /upload handler of server.js.           *)
(*                                                                         *)
(* The handler receives the files multer has already stored in the uploads *)
(* directory, runs one asynchronous extraction per file under Promise.all, *)
(* and then computes the price comparison over the collected records.      *)
(*                                                                         *)
(* JavaScript values are modelled as records [t, n, d, s]: t is the type   *)
(* tag, n/d the number (d = 1 unless the number comes out of a division)    *)
(* and s the characters of a string.  A character is a                     *)
(* one-character string: a digit, "-" or "x" (any character that is not    *)
(* part of a numeric literal).  Prices are whole numbers.                  *)
(* The fields items, tax, fees and notes of a record are copied through by *)
(* the handler and never read again; they are left out of the records.     *)
(***************************************************************************)
EXTENDS Integers, Sequences, FiniteSets

\* ---------------------------------------------------------------- bounds
MaxFiles == 2

\* ------------------------------------------------------- JavaScript values
DigitChars == <<"0", "1", "2", "3", "4", "5", "6", "7", "8", "9">>
IsDigit(c) == \E d \in 1..Len(DigitChars) : DigitChars[d] = c
DigitVal(c) == (CHOOSE d \in 1..Len(DigitChars) : DigitChars[d] = c) - 1

Undef == [t |-> "undefined", n |-> 0, d |-> 1, s |-> <<>>]
NaN == [t |-> "nan", n |-> 0, d |-> 1, s |-> <<>>]
Num(k) == [t |-> "number", n |-> k, d |-> 1, s |-> <<>>]
Str(q) == [t |-> "string", n |-> 0, d |-> 1, s |-> q]
Bool(b) == [t |-> "boolean", n |-> IF b THEN 1 ELSE 0, d |-> 1, s |-> <<>>]

\* ToBoolean: what `||`, `!` and `?:` test.
Truthy(v) ==
  CASE v.t = "number" -> v.n # 0
    [] v.t = "string" -> Len(v.s) > 0
    [] v.t = "boolean" -> v.n = 1
    [] OTHER -> FALSE

\* a || b
Or(a, b) == IF Truthy(a) THEN a ELSE b

RECURSIVE DecVal(_)
DecVal(q) ==
  IF q = <<>> THEN 0
  ELSE Len(DigitChars) * DecVal(SubSeq(q, 1, Len(q) - 1)) + DigitVal(q[Len(q)])

AllDigits(q) == \A i \in 1..Len(q) : IsDigit(q[i])

\* StringToNumber: "" is 0, a decimal literal is its value, anything else NaN.
StringToNumber(q) ==
  IF q = <<>> THEN Num(0)
  ELSE IF AllDigits(q) THEN Num(DecVal(q))
  ELSE IF Len(q) > 1 /\ q[1] = "-" /\ AllDigits(Tail(q)) THEN Num(0 - DecVal(Tail(q)))
  ELSE NaN

\* ToNumber: applied by `>`, `-`, `/`, Math.min and Math.max.
ToNumber(v) ==
  CASE v.t = "number" -> v
    [] v.t = "string" -> StringToNumber(v.s)
    [] v.t = "boolean" -> Num(v.n)
    [] OTHER -> NaN

RECURSIVE Digits(_)
Digits(k) ==
  IF k < Len(DigitChars) THEN <<DigitChars[k + 1]>>
  ELSE Digits(k \div Len(DigitChars)) \o <<DigitChars[(k % Len(DigitChars)) + 1]>>

\* ToString of a primitive, as `+` applies it next to a string.
ToString(v) ==
  CASE v.t = "string" -> v.s
    [] v.t = "number" -> IF v.n < 0 THEN <<"-">> \o Digits(0 - v.n) ELSE Digits(v.n)
    [] OTHER -> <<"x">>

\* a > 0
GreaterThanZero(a) == ToNumber(a).t = "number" /\ ToNumber(a).n > 0

\* a === b
StrictEquals(a, b) == a.t = b.t /\ a.t # "nan" /\ a.n = b.n /\ a.d = b.d /\ a.s = b.s

\* a - b
Minus2(a, b) ==
  IF ToNumber(a).t = "number" /\ ToNumber(b).t = "number"
  THEN Num(ToNumber(a).n - ToNumber(b).n)
  ELSE NaN

\* a + b
Plus(a, b) ==
  IF a.t = "string" \/ b.t = "string" THEN Str(ToString(a) \o ToString(b))
  ELSE IF ToNumber(a).t = "number" /\ ToNumber(b).t = "number"
  THEN Num(ToNumber(a).n + ToNumber(b).n)
  ELSE NaN

RECURSIVE Gcd(_, _)
Gcd(a, b) == IF b = 0 THEN a ELSE Gcd(b, a % b)

\* a / k for a positive array length k; the quotient is kept in lowest terms.
Divide(a, k) ==
  IF ToNumber(a).t # "number" THEN NaN
  ELSE LET m == ToNumber(a).n
           g == Gcd(IF m < 0 THEN 0 - m ELSE m, k)
       IN  [t |-> "number", n |-> m \div g, d |-> k \div g, s |-> <<>>]

\* ------------------------------------------------------------ input sets
\* File names the client may give (file.originalname); duplicates allowed.
Names == {"a.txt", "b.pdf"}

\* quoteData: the value JSON.parse returns; object = FALSE is the JSON null.
\* A total or subtotal may be missing, zero, negative, positive, a numeric
\* string or a non-numeric string.
Answer(vendor, subtotal, total) ==
  [object |-> TRUE, vendor |-> vendor, subtotal |-> subtotal, total |-> total]

NullAnswer == [object |-> FALSE, vendor |-> "", subtotal |-> Undef, total |-> Undef]

\* Totals that `||` lets fall through to the subtotal, or that are not > 0.
FallbackTotals == {Undef, Num(0), Num(-1)}
SubtotalValues == {Undef, Num(3)}
\* Totals that are used whatever the subtotal is.
KeptTotals == {Num(1), Num(2), Str(<<"1">>), Str(<<"x">>)}

QuoteDatas ==
  {Answer("", sub, tot) : sub \in SubtotalValues, tot \in FallbackTotals}
    \cup {Answer("", Undef, tot) : tot \in KeptTotals}
    \cup {Answer("Acme", Num(-1), Num(2)), NullAnswer}

NoData == [object |-> FALSE, vendor |-> "", subtotal |-> Undef, total |-> Undef]

\* --------------------------------------------------------------- records
\* A record of the quotes array.  error = "" stands for "no error property";
\* isBestDeal and savings are Undef until quotesWithComparison adds them.
NoRecord ==
  [vendor |-> "", subtotal |-> Undef, total |-> Undef, error |-> "",
   filename |-> "", isBestDeal |-> Undef, savings |-> Undef]

\* The object returned after a successful extraction.
QuoteRecord(file, quoteData) ==
  [vendor |-> IF quoteData.vendor # "" THEN quoteData.vendor ELSE file.originalname,
   subtotal |-> Or(quoteData.subtotal, Num(0)),
   total |-> Or(Or(quoteData.total, quoteData.subtotal), Num(0)),
   error |-> "",
   filename |-> file.originalname,
   isBestDeal |-> Undef,
   savings |-> Undef]

\* The object returned by the per-file catch block.
ErrorRecord(file, message) ==
  [vendor |-> file.originalname, subtotal |-> Undef, total |-> Undef,
   error |-> message, filename |-> file.originalname,
   isBestDeal |-> Undef, savings |-> Undef]

\* ------------------------------------------------------------ comparison
\* q => !q.error && q.total > 0
IsValidQuote(q) == q.error = "" /\ GreaterThanZero(q.total)

validQuotes(qs) == SelectSeq(qs, IsValidQuote)

prices(qs) == [i \in 1..Len(validQuotes(qs)) |-> validQuotes(qs)[i].total]

\* Math.min(...p) and Math.max(...p) of a non-empty argument list.
MathMin(p) ==
  IF \E i \in 1..Len(p) : ToNumber(p[i]).t # "number" THEN NaN
  ELSE Num(CHOOSE m \in {ToNumber(p[i]).n : i \in 1..Len(p)} :
             \A i \in 1..Len(p) : m <= ToNumber(p[i]).n)

MathMax(p) ==
  IF \E i \in 1..Len(p) : ToNumber(p[i]).t # "number" THEN NaN
  ELSE Num(CHOOSE m \in {ToNumber(p[i]).n : i \in 1..Len(p)} :
             \A i \in 1..Len(p) : m >= ToNumber(p[i]).n)

\* Variant: the highest price taken with Math.min.
highestPriceWithMin(qs) == MathMin(prices(qs))

lowestPrice(qs) == MathMin(prices(qs))

highestPrice(qs) == MathMax(prices(qs))

\* p.reduce((a, b) => a + b, 0)
RECURSIVE ReduceSum(_)
ReduceSum(p) ==
  IF p = <<>> THEN Num(0)
  ELSE Plus(ReduceSum(SubSeq(p, 1, Len(p) - 1)), p[Len(p)])

averagePrice(qs) == Divide(ReduceSum(prices(qs)), Len(prices(qs)))

\* validQuotes.find(q => q.total === lowestPrice): its index, 0 for undefined.
bestDealIndex(qs) ==
  LET v == validQuotes(qs)
      hits == {i \in 1..Len(v) : StrictEquals(v[i].total, lowestPrice(qs))}
  IN  IF hits = {} THEN 0 ELSE CHOOSE i \in hits : \A j \in hits : i <= j

savings(qs) == Minus2(highestPrice(qs), lowestPrice(qs))

comparison(qs) ==
  [lowestPrice |-> lowestPrice(qs),
   highestPrice |-> highestPrice(qs),
   averagePrice |-> averagePrice(qs),
   priceRange |-> Minus2(highestPrice(qs), lowestPrice(qs))]

\* Variant: savings measured from the lowest price.
AnnotateSavingsFromLowest(quote, qs) ==
  IF quote.error = "" THEN Minus2(lowestPrice(qs), quote.total) ELSE Num(0)

\* The isBestDeal and savings properties added to one quote.
AnnotateBestDeal(quote, qs) ==
  Bool(quote.error = "" /\ StrictEquals(quote.total, lowestPrice(qs)))

AnnotateSavings(quote, qs) ==
  IF quote.error = "" THEN Minus2(highestPrice(qs), quote.total) ELSE Num(0)

quotesWithComparison(qs) ==
  [i \in 1..Len(qs) |->
     [qs[i] EXCEPT !.isBestDeal = AnnotateBestDeal(qs[i], qs),
                       !.savings = AnnotateSavings(qs[i], qs)]]

\* bestDeal ? {vendor, total, savings} : null
NoBestDeal == [present |-> FALSE, vendor |-> "", total |-> Undef, savings |-> Undef]

bestDealBody(qs) ==
  IF bestDealIndex(qs) = 0 THEN NoBestDeal
  ELSE [present |-> TRUE,
        vendor |-> validQuotes(qs)[bestDealIndex(qs)].vendor,
        total |-> validQuotes(qs)[bestDealIndex(qs)].total,
        savings |-> savings(qs)]

\* ------------------------------------------------------------- responses
NoComparison ==
  [lowestPrice |-> Undef, highestPrice |-> Undef, averagePrice |-> Undef,
   priceRange |-> Undef]

\* The JSON body and status of a response.  kind names the res.json call;
\* quotes is the top-level quotes property, data the data property.
NoDataBody == [present |-> FALSE, quotes |-> <<>>, comparison |-> NoComparison,
            bestDeal |-> NoBestDeal]

NotSent ==
  [kind |-> "none", status |-> 0, success |-> FALSE, hasQuotes |-> FALSE,
   quotes |-> <<>>, data |-> NoDataBody]

KeyMissingResponse ==
  [kind |-> "keyMissing", status |-> 500, success |-> FALSE, hasQuotes |-> FALSE,
   quotes |-> <<>>, data |-> NoDataBody]

TooFewResponse ==
  [kind |-> "tooFew", status |-> 400, success |-> FALSE, hasQuotes |-> FALSE,
   quotes |-> <<>>, data |-> NoDataBody]

ServerErrorResponse ==
  [kind |-> "serverError", status |-> 500, success |-> FALSE, hasQuotes |-> FALSE,
   quotes |-> <<>>, data |-> NoDataBody]

\* Variant: the failure body lists the valid quotes only.
NoValidResponseValidOnly(qs) ==
  [kind |-> "noValid", status |-> 200, success |-> FALSE, hasQuotes |-> TRUE,
   quotes |-> validQuotes(qs), data |-> NoDataBody]

NoValidResponse(qs) ==
  [kind |-> "noValid", status |-> 200, success |-> FALSE, hasQuotes |-> TRUE,
   quotes |-> qs, data |-> NoDataBody]

ComparisonResponse(qs) ==
  [kind |-> "comparison", status |-> 200, success |-> TRUE, hasQuotes |-> FALSE,
   quotes |-> <<>>,
   data |-> [present |-> TRUE,
             quotes |-> quotesWithComparison(qs),
             comparison |-> comparison(qs),
             bestDeal |-> bestDealBody(qs)]]

\* The statements after `await Promise.all(...)`.
CompareResponse(qs) ==
  IF Len(validQuotes(qs)) = 0 THEN NoValidResponse(qs)
  ELSE ComparisonResponse(qs)

\* ----------------------------------------------------------------- state
VARIABLES
  openai,      \* TRUE iff OPENAI_API_KEY was set and the client was built
  files,       \* req.files, in upload order; the path of files[i] is i
  uploadsDir,  \* the paths present in the uploads directory
  handler,     \* position of the /upload handler: entry, await, sent
  pc,          \* position of each per-file async function
  quoteData,   \* each per-file function's parsed answer
  caught,      \* each per-file function's caught error.message
  quotes,      \* the array Promise.all builds, by input position
  res          \* the response sent

vars == <<openai, files, uploadsDir, handler, pc, quoteData, caught, quotes, res>>

Batches == UNION {[1..n -> [originalname : Names]] : n \in 0..MaxFiles}

FileIds == 1..Len(files)

\* multer has written every uploaded file to disk before the handler runs.
Init ==
  /\ openai \in BOOLEAN
  /\ files \in Batches
  /\ uploadsDir = 1..Len(files)
  /\ handler = "entry"
  /\ pc = [i \in 1..Len(files) |-> "idle"]
  /\ quoteData = [i \in 1..Len(files) |-> NoData]
  /\ caught = [i \in 1..Len(files) |-> ""]
  /\ quotes = [i \in 1..Len(files) |-> NoRecord]
  /\ res = NotSent

\* if (!openai) return res.status(500).json(...)
KeyMissing ==
  /\ handler = "entry"
  /\ ~openai
  /\ res' = KeyMissingResponse
  /\ handler' = "sent"
  /\ UNCHANGED <<openai, files, uploadsDir, pc, quoteData, caught, quotes>>

\* if (!req.files || req.files.length < 2) return res.status(400).json(...)
TooFew ==
  /\ handler = "entry"
  /\ openai
  /\ Len(files) < 2
  /\ res' = TooFewResponse
  /\ handler' = "sent"
  /\ UNCHANGED <<openai, files, uploadsDir, pc, quoteData, caught, quotes>>

\* req.files.map(async (file) => ...): every per-file function runs up to its
\* first await, the read of the file.
StartBatch ==
  /\ handler = "entry"
  /\ openai
  /\ Len(files) >= 2
  /\ pc' = [i \in FileIds |-> "readFile"]
  /\ handler' = "await"
  /\ UNCHANGED <<openai, files, uploadsDir, quoteData, caught, quotes, res>>

\* Variant: results collected in the order in which the promises settle.
ResultIndexByCompletion(i) == Cardinality({j \in FileIds : pc[j] \in {"fulfilled", "rejected"}}) + 1

\* Promise.all stores the value of the i-th promise at index i of its result,
\* whenever that promise settles.
ResultIndex(i) == i

\* Variant: the catch block rethrows, so the promise is rejected.
CatchOutcomeRejected == "rejected"

\* The position a per-file function is left in by its catch block, which
\* returns the error record: the promise is fulfilled, never rejected.
CatchOutcome == "fulfilled"

\* A throw inside the per-file try block: control passes to the catch block,
\* which first awaits fs.remove(file.path); quoteData, declared inside the
\* try block, goes out of scope.
Throw(i, message) ==
  /\ pc' = [pc EXCEPT ![i] = "catch"]
  /\ caught' = [caught EXCEPT ![i] = message]
  /\ quoteData' = [quoteData EXCEPT ![i] = NoData]

\* await fs.readFile(filePath ...) succeeds; the call to the model is made.
ReadFileOk(i) ==
  /\ pc[i] = "readFile"
  /\ pc' = [pc EXCEPT ![i] = "create"]
  /\ UNCHANGED <<openai, files, uploadsDir, handler, quoteData, caught, quotes, res>>

\* await fs.readFile(...) throws (for an unknown extension: both reads throw).
ReadFileFail(i) ==
  /\ pc[i] = "readFile"
  /\ Throw(i, "read failed")
  /\ UNCHANGED <<openai, files, uploadsDir, handler, quotes, res>>

\* await openai.chat.completions.create(...) returns and its content parses.
CreateOk(i, data) ==
  /\ pc[i] = "create"
  /\ quoteData' = [quoteData EXCEPT ![i] = data]
  /\ pc' = [pc EXCEPT ![i] = "remove"]
  /\ UNCHANGED <<openai, files, uploadsDir, handler, caught, quotes, res>>

\* await openai.chat.completions.create(...) throws.
CreateFail(i) ==
  /\ pc[i] = "create"
  /\ Throw(i, "api error")
  /\ UNCHANGED <<openai, files, uploadsDir, handler, quotes, res>>

\* The content holds no JSON: both JSON.parse attempts throw.
ParseFail(i) ==
  /\ pc[i] = "create"
  /\ Throw(i, "Could not parse JSON from OpenAI response")
  /\ UNCHANGED <<openai, files, uploadsDir, handler, quotes, res>>

\* await fs.remove(filePath) succeeds, then the record is built; reading a
\* property of a null quoteData throws a TypeError.
RemoveOk(i) ==
  /\ pc[i] = "remove"
  /\ uploadsDir' = uploadsDir \ {i}
  /\ IF quoteData[i].object
     THEN /\ quotes' = [quotes EXCEPT ![ResultIndex(i)] = QuoteRecord(files[i], quoteData[i])]
          /\ pc' = [pc EXCEPT ![i] = "fulfilled"]
          /\ UNCHANGED <<caught, quoteData>>
     ELSE /\ Throw(i, "Cannot read properties of null")
          /\ UNCHANGED quotes
  /\ UNCHANGED <<openai, files, handler, res>>

\* await fs.remove(filePath) throws.
RemoveFail(i) ==
  /\ pc[i] = "remove"
  /\ Throw(i, "remove failed")
  /\ UNCHANGED <<openai, files, uploadsDir, handler, quotes, res>>

\* catch: try { await fs.remove(file.path) } catch {} ; return the error record.
CatchRemoveOk(i) ==
  /\ pc[i] = "catch"
  /\ uploadsDir' = uploadsDir \ {i}
  /\ quotes' = [quotes EXCEPT ![ResultIndex(i)] = ErrorRecord(files[i], caught[i])]
  /\ pc' = [pc EXCEPT ![i] = CatchOutcome]
  /\ UNCHANGED <<openai, files, handler, quoteData, caught, res>>

\* The same with fs.remove throwing: the inner catch swallows it.
CatchRemoveFail(i) ==
  /\ pc[i] = "catch"
  /\ quotes' = [quotes EXCEPT ![ResultIndex(i)] = ErrorRecord(files[i], caught[i])]
  /\ pc' = [pc EXCEPT ![i] = CatchOutcome]
  /\ UNCHANGED <<openai, files, uploadsDir, handler, quoteData, caught, res>>

\* Promise.all settles: fulfilled once every promise is, rejected as soon as
\* one promise is.
PromiseAllFulfilled == \A i \in FileIds : pc[i] = "fulfilled"

PromiseAllRejected == \E i \in FileIds : pc[i] = "rejected"

\* The handler resumes after `await Promise.all`: the comparison and its
\* response, or the outer catch's 500 when Promise.all rejected.
Respond ==
  /\ handler = "await"
  /\ PromiseAllFulfilled \/ PromiseAllRejected
  /\ res' = IF PromiseAllRejected THEN ServerErrorResponse ELSE CompareResponse(quotes)
  /\ handler' = "sent"
  /\ UNCHANGED <<openai, files, uploadsDir, pc, quoteData, caught, quotes>>

Next ==
  \/ KeyMissing
  \/ TooFew
  \/ StartBatch
  \/ \E i \in FileIds : ReadFileOk(i)
  \/ \E i \in FileIds : ReadFileFail(i)
  \/ \E i \in FileIds : \E data \in QuoteDatas : CreateOk(i, data)
  \/ \E i \in FileIds : CreateFail(i)
  \/ \E i \in FileIds : ParseFail(i)
  \/ \E i \in FileIds : RemoveOk(i)
  \/ \E i \in FileIds : RemoveFail(i)
  \/ \E i \in FileIds : CatchRemoveOk(i)
  \/ \E i \in FileIds : CatchRemoveFail(i)
  \/ Respond

Spec == Init /\ [][Next]_vars

\* ================================================================ claims
\* The response carries the batch's records: top-level quotes when no quote
\* was valid, data.quotes with the comparison.
HasQuotes == handler = "sent" /\ res.kind \in {"noValid", "comparison"}

OutQuotes == IF res.kind = "comparison" THEN res.data.quotes ELSE res.quotes

\* A valid quote, in the words of the claims: no error and a total > 0.
ValidRecord(q) == q.error = "" /\ ToNumber(q.total).t = "number" /\ ToNumber(q.total).n > 0

ValidIds == {i \in 1..Len(quotes) : ValidRecord(quotes[i])}

NumberOf(v) == ToNumber(v).n

MinValidTotal == CHOOSE m \in {NumberOf(quotes[i].total) : i \in ValidIds} :
                   \A i \in ValidIds : m <= NumberOf(quotes[i].total)

MaxValidTotal == CHOOSE m \in {NumberOf(quotes[i].total) : i \in ValidIds} :
                   \A i \in ValidIds : m >= NumberOf(quotes[i].total)

BestDealIds == {i \in 1..Len(OutQuotes) : OutQuotes[i].isBestDeal = Bool(TRUE)}

C2_ExactlyOneBestDeal ==
  HasQuotes =>
    Cardinality(BestDealIds) = IF ValidIds = {} THEN 0 ELSE 1

\* C3 (as claimed): in the quotes of a comparison, every record that is not
\* valid (an error record, or an error-free record whose total is not > 0)
\* has isBestDeal = false and savings = 0, and every valid record has
\* savings = highestPrice - total.
C3_InvalidHaveZeroSavings ==
  (handler = "sent" /\ res.kind = "comparison") =>
    /\ Len(OutQuotes) = Len(quotes)
    /\ \A i \in 1..Len(quotes) :
         IF i \in ValidIds
         THEN OutQuotes[i].savings = Num(MaxValidTotal - NumberOf(quotes[i].total))
         ELSE OutQuotes[i].isBestDeal = Bool(FALSE) /\ OutQuotes[i].savings = Num(0)

\* The record the i-th per-file function returned, rebuilt from its file and
\* from what it parsed or caught.
RecordOfFile(i) ==
  IF caught[i] # "" THEN ErrorRecord(files[i], caught[i])
  ELSE QuoteRecord(files[i], quoteData[i])

\* An output quote without the two properties the comparison adds.
WithoutComparison(q) == [q EXCEPT !.isBestDeal = Undef, !.savings = Undef]

\* C4: the output quotes have the length of the uploaded files and the i-th
\* entry is the record of the i-th file, whatever the order in which the
\* per-file extractions finish or fail: a settled extraction's record sits at
\* its file's index, and the response lists the records by file index.
C4_OrderPreserved ==
  /\ \A i \in FileIds :
       pc[i] = "fulfilled" =>
         quotes[i] = RecordOfFile(i) /\ quotes[i].filename = files[i].originalname
  /\ \A i \in FileIds : pc[i] # "fulfilled" => quotes[i] = NoRecord
  /\ HasQuotes =>
       /\ Len(OutQuotes) = Len(files)
       /\ \A i \in FileIds :
            /\ WithoutComparison(OutQuotes[i]) = RecordOfFile(i)
            /\ OutQuotes[i].filename = files[i].originalname

\* The second file's extraction has settled while the first file's is still
\* being read, and the two files differ in name.
C4_Witness ==
  /\ Len(files) >= 2
  /\ files[1].originalname # files[2].originalname
  /\ pc[1] = "readFile"
  /\ pc[2] = "fulfilled"
  /\ quotes[2].filename = files[2].originalname
  /\ quotes[2].error = ""

\* C5 (as claimed): whenever a valid quote exists, bestDeal is present, it is
\* the first valid record in input order whose total equals the minimum valid
\* total, and bestDeal.total equals comparison.lowestPrice.
C5_BestDealIsFirstLowest ==
  (HasQuotes /\ ValidIds # {}) =>
    /\ res.kind = "comparison"
    /\ res.data.bestDeal.present
    /\ LET first == CHOOSE i \in ValidIds :
                      /\ NumberOf(quotes[i].total) = MinValidTotal
                      /\ \A j \in ValidIds :
                           NumberOf(quotes[j].total) = MinValidTotal => i <= j
       IN  /\ res.data.bestDeal.vendor = quotes[first].vendor
           /\ res.data.bestDeal.total = quotes[first].total
    /\ StrictEquals(res.data.bestDeal.total, res.data.comparison.lowestPrice)

\* C6: in a comparison, priceRange is highestPrice - lowestPrice and every
\* valid quote has 0 <= savings <= priceRange.
C6_SavingsWithinRange ==
  (handler = "sent" /\ res.kind = "comparison") =>
    /\ res.data.comparison.lowestPrice = Num(MinValidTotal)
    /\ res.data.comparison.highestPrice = Num(MaxValidTotal)
    /\ res.data.comparison.priceRange = Num(MaxValidTotal - MinValidTotal)
    /\ \A i \in ValidIds :
         /\ OutQuotes[i].savings.t = "number"
         /\ OutQuotes[i].savings.d = 1
         /\ 0 <= OutQuotes[i].savings.n
         /\ OutQuotes[i].savings.n <= res.data.comparison.priceRange.n

\* A comparison of two valid quotes with different totals: one saves nothing,
\* the other saves the whole price range.
C6_Witness ==
  /\ handler = "sent"
  /\ res.kind = "comparison"
  /\ res.data.comparison.priceRange.n > 0
  /\ \E i, j \in ValidIds :
       /\ OutQuotes[i].savings = Num(0)
       /\ OutQuotes[j].savings = res.data.comparison.priceRange

\* C7 (as claimed): among the valid quotes, savings is 0 exactly for the
\* quotes whose total is the minimum valid total.
C7_ZeroSavingsIffLowest ==
  (handler = "sent" /\ res.kind = "comparison") =>
    \A i \in ValidIds :
      OutQuotes[i].savings = Num(0) <=> NumberOf(quotes[i].total) = MinValidTotal

\* C7 (amended): among the valid quotes, savings is 0 exactly for the quotes
\* whose total is the maximum valid total; a quote with the minimum valid
\* total has savings equal to the price range.
C7_ZeroSavingsIffHighest ==
  (handler = "sent" /\ res.kind = "comparison") =>
    \A i \in ValidIds :
      /\ OutQuotes[i].savings = Num(0) <=> NumberOf(quotes[i].total) = MaxValidTotal
      /\ NumberOf(quotes[i].total) = MinValidTotal =>
           OutQuotes[i].savings = Num(MaxValidTotal - MinValidTotal)

\* A comparison in which the cheapest valid quote has savings > 0 and the
\* dearest valid quote has savings = 0.
C7_Witness ==
  /\ handler = "sent"
  /\ res.kind = "comparison"
  /\ \E i, j \in ValidIds :
       /\ NumberOf(quotes[i].total) = MinValidTotal
       /\ OutQuotes[i].savings.n > 0
       /\ NumberOf(quotes[j].total) = MaxValidTotal
       /\ OutQuotes[j].savings = Num(0)

\* A finite number > 0.
PositiveNumber(v) == v.t = "number" /\ v.n > 0

\* C8 (as claimed): the resolved total of an extracted record is the
\* extracted total when that is a finite number > 0, otherwise the extracted
\* subtotal when that is a finite number > 0, otherwise 0.
C8_ResolvedTotal ==
  \A i \in FileIds :
    (pc[i] = "fulfilled" /\ caught[i] = "") =>
      quotes[i].total =
        IF PositiveNumber(quoteData[i].total) THEN quoteData[i].total
        ELSE IF PositiveNumber(quoteData[i].subtotal) THEN quoteData[i].subtotal
        ELSE Num(0)

\* C9: the comparison is computed only when every file of the batch has
\* produced exactly one record, a quote or an error record; no failure of a
\* file's read, extraction call, parse or cleanup aborts the batch, and the
\* records of the other files are still compared.
C9_AllRecordsBeforeComparison ==
  /\ res.kind # "serverError"
  /\ \A i \in FileIds : pc[i] # "rejected"
  /\ (handler = "sent" /\ openai /\ Len(files) >= 2) =>
       /\ HasQuotes
       /\ Len(OutQuotes) = Len(files)
       /\ \A i \in FileIds :
            /\ pc[i] = "fulfilled"
            /\ quotes[i] # NoRecord
            /\ quotes[i].error # "" <=> caught[i] # ""
       /\ ValidIds # {} =>
            /\ res.kind = "comparison"
            /\ res.data.comparison.lowestPrice = Num(MinValidTotal)
            /\ res.data.comparison.highestPrice = Num(MaxValidTotal)

\* One file's extraction failed, the other file's quote is valid, and the
\* comparison has been sent.
C9_Witness ==
  /\ handler = "sent"
  /\ res.kind = "comparison"
  /\ \E i, j \in FileIds :
       /\ caught[i] # ""
       /\ OutQuotes[i].error = caught[i]
       /\ j \in ValidIds

\* C10 (as claimed): when the response has been sent, every file multer
\* stored for the request has been removed from the uploads directory.
C10_UploadsRemoved == handler = "sent" => uploadsDir = {}

====
